---------------------------- MODULE Spec2Model ----------------------------
(***************************************************************************)
(* Model of src/app.py: the retrieval-augmented product chatbot.           *)
(*                                                                         *)
(* Text is a sequence of atoms.  Text that the program inspects character  *)
(* by character (queries, casual keys, office countries, LLM output) is    *)
(* written one character per atom; fixed literals that are only ever       *)
(* concatenated or compared whole are written as one atom.                 *)
(***************************************************************************)
EXTENDS Naturals, Sequences, FiniteSets, TLC

VARIABLES
    phase,        \* position of the module-level startup code
    env,          \* the process environment and the catalog file on disk
    products,     \* app.py:31   parsed catalog
    docs,         \* app.py:47   flattened chunk sequence
    vectorstore,  \* app.py:111  the similarity index
    req           \* one record per in-flight HTTP request

vars == <<phase, env, products, docs, vectorstore, req>>

----------------------------------------------------------------------------
(* Bounds                                                                  *)

NumReq == 2        \* concurrent requests served in one run
MaxLen == 3        \* longest generated query, in characters
MaxProducts == 2   \* longest generated catalog, in entries
MaxFaqs == 2       \* longest generated FAQ list

Reqs == 1..NumReq

----------------------------------------------------------------------------
(* Text helpers: str.strip, str.lower, str.startswith, str.capitalize,     *)
(* str.join                                                                *)

Whitespace == {" ", "\t", "\n"}

UpperChars == <<"A","B","C","D","E","F","G","H","I","J","K","L","M",
                "N","O","P","Q","R","S","T","U","V","W","X","Y","Z">>
LowerChars == <<"a","b","c","d","e","f","g","h","i","j","k","l","m",
                "n","o","p","q","r","s","t","u","v","w","x","y","z">>

ToLower == [c \in {UpperChars[i] : i \in 1..26} |->
                LowerChars[CHOOSE i \in 1..26 : UpperChars[i] = c]]

ToUpper == [c \in {LowerChars[i] : i \in 1..26} |->
                UpperChars[CHOOSE i \in 1..26 : LowerChars[i] = c]]

LowerChar(c) == IF c \in DOMAIN ToLower THEN ToLower[c] ELSE c

UpperChar(c) == IF c \in DOMAIN ToUpper THEN ToUpper[c] ELSE c

Lower(s) == [i \in 1..Len(s) |-> LowerChar(s[i])]

RECURSIVE LStrip(_)
LStrip(s) ==
    IF s = <<>> THEN <<>>
    ELSE IF Head(s) \in Whitespace THEN LStrip(Tail(s)) ELSE s

RECURSIVE RStrip(_)
RStrip(s) ==
    IF s = <<>> THEN <<>>
    ELSE IF s[Len(s)] \in Whitespace THEN RStrip(SubSeq(s, 1, Len(s) - 1)) ELSE s

Strip(s) == RStrip(LStrip(s))

StartsWith(s, prefix) ==
    /\ Len(prefix) <= Len(s)
    /\ SubSeq(s, 1, Len(prefix)) = prefix

Capitalize(s) ==
    IF s = <<>> THEN <<>>
    ELSE <<UpperChar(Head(s))>> \o Lower(Tail(s))

RECURSIVE Join(_, _)
Join(sep, parts) ==
    IF parts = <<>> THEN <<>>
    ELSE IF Len(parts) = 1 THEN parts[1]
    ELSE parts[1] \o sep \o Join(sep, Tail(parts))

----------------------------------------------------------------------------
(* CASUAL_RESPONSES, in insertion order (the order the loop iterates in).  *)
(* The emoji of the source texts are left out of the literals.             *)

CASUAL_RESPONSES == <<
    [key |-> <<"h","i">>,
     resp |-> <<"Hello! Welcome to Emerging Software. How can I assist you today?">>],
    [key |-> <<"h","e","l","l","o">>,
     resp |-> <<"Hi there! How can I help you with our services?">>],
    [key |-> <<"h","e","y">>,
     resp |-> <<"Hey! What would you like to know?">>],
    [key |-> <<"h","o","w"," ","a","r","e"," ","y","o","u">>,
     resp |-> <<"I'm doing great! Ready to help you succeed. What can I assist with?">>],
    [key |-> <<"i","'","m"," ","f","i","n","e">>,
     resp |-> <<"Great to hear! Now, how can I help your business?">>],
    [key |-> <<"t","h","a","n","k","s">>,
     resp |-> <<"You're welcome! Feel free to ask anything else.">>],
    [key |-> <<"t","h","a","n","k"," ","y","o","u">>,
     resp |-> <<"Happy to help!">>],
    [key |-> <<"b","y","e">>,
     resp |-> <<"Goodbye! Have a great day!">>],
    [key |-> <<"o","k">>,
     resp |-> <<"Okay! Let me know if you need more info.">>],
    [key |-> <<"y","e","s">>,
     resp |-> <<"Great! What else would you like to know?">>],
    [key |-> <<"n","o">>,
     resp |-> <<"No problem! Feel free to ask anything else.">>]
>>

\* variant: the loop tests equality only
KeyMatchesExact(lower_query, key) == lower_query = key

\* app.py:188  the test of one loop iteration
KeyMatches(lower_query, key) ==
    lower_query = key \/ StartsWith(lower_query, key)

\* app.py:187-189  index of the entry the loop returns on, 0 when it falls through
CasualMatch(lower_query) ==
    LET hits == {i \in 1..Len(CASUAL_RESPONSES) :
                    KeyMatches(lower_query, CASUAL_RESPONSES[i].key)}
    IN  IF hits = {} THEN 0 ELSE CHOOSE i \in hits : \A j \in hits : i <= j


----------------------------------------------------------------------------
(* JSON values as json.load returns them.  A value carries its Python type *)
(* in tag.  A dict read through .get / in / [] holds a record in val; a    *)
(* dict that the program iterates with .items() holds the sequence of its  *)
(* [k, v] items in document order.                                         *)

None == [tag |-> "null", val |-> <<>>]
Str(t) == [tag |-> "str", val |-> t]
Dict(d) == [tag |-> "dict", val |-> d]
List(l) == [tag |-> "list", val |-> l]
Item(k, v) == [k |-> k, v |-> v]

NoKeys == [x \in {} |-> None]

IsDict(v) == v.tag = "dict"
IsList(v) == v.tag = "list"

\* dict.get(key, default) on a value known to be a dict
Get(d, key, default) == IF key \in DOMAIN d.val THEN d.val[key] ELSE default

\* key in dict
Has(d, key) == key \in DOMAIN d.val

\* the text an f-string puts for a value
Fmt(v) ==
    IF v.tag = "str" THEN v.val
    ELSE IF v.tag = "null" THEN <<"None">>
    ELSE <<"<repr>">>

\* bool(value)
Truthy(v) ==
    IF v.tag = "null" THEN FALSE
    ELSE IF v.tag \in {"str", "list"} THEN v.val # <<>>
    ELSE TRUE

Concat(seqs) == Join(<<>>, seqs)

----------------------------------------------------------------------------
(* app.py:47-101  the flattening loop, one operator per section            *)

\* variant: .get with an empty default instead of the placeholders
BaseChunkNoPlaceholder(p) ==
    Fmt(Get(p, "service", Str(<<>>))) \o <<": ">> \o Fmt(Get(p, "description", Str(<<>>)))

\* app.py:49-51
BaseChunk(p) ==
    Fmt(Get(p, "service", Str(<<"Unnamed Product">>))) \o <<": ">>
        \o Fmt(Get(p, "description", Str(<<"No description available.">>)))

\* app.py:53-56
CampaignChunks(p) ==
    LET types_of_campaigns == Get(p, "typesOfCampaigns", None)
    IN  IF IsDict(types_of_campaigns)
        THEN [i \in 1..Len(types_of_campaigns.val) |->
                LET it == types_of_campaigns.val[i]
                IN  it.k \o <<": ">> \o Fmt(Get(it.v, "description", Str(<<>>)))
                        \o <<" - Ideal For: ">> \o Fmt(Get(it.v, "idealFor", Str(<<>>)))]
        ELSE <<>>

\* app.py:58-61
BenefitChunks(p) ==
    LET benefits == Get(p, "benefits", None)
    IN  IF IsDict(benefits)
        THEN [i \in 1..Len(benefits.val) |->
                <<"Benefit - ">> \o benefits.val[i].k \o <<": ">> \o Fmt(benefits.val[i].v)]
        ELSE <<>>

\* app.py:63-66
WhyChooseUsChunks(p) ==
    LET why_choose_us == Get(p, "whyChooseUs", None)
    IN  IF IsDict(why_choose_us)
        THEN [i \in 1..Len(why_choose_us.val) |->
                <<"Why Choose Us - ">> \o why_choose_us.val[i].k \o <<": ">>
                    \o Fmt(why_choose_us.val[i].v)]
        ELSE <<>>

\* variant: "question or answer" instead of "question and answer"
FaqKeptEither(faq) ==
    \/ Truthy(Get(faq, "question", Str(<<>>)))
    \/ Truthy(Get(faq, "answer", Str(<<>>)))

\* app.py:71-73  the test that keeps an FAQ item
FaqKept(faq) ==
    /\ Truthy(Get(faq, "question", Str(<<>>)))
    /\ Truthy(Get(faq, "answer", Str(<<>>)))

\* app.py:74
FaqChunk(faq) ==
    <<"FAQ - Q: ">> \o Fmt(Get(faq, "question", Str(<<>>)))
        \o <<" A: ">> \o Fmt(Get(faq, "answer", Str(<<>>)))

\* app.py:68-74
FaqChunks(p) ==
    LET faqs == Get(p, "faqs", None)
    IN  IF IsList(faqs)
        THEN LET kept == SelectSeq(faqs.val, FaqKept)
             IN  [i \in 1..Len(kept) |-> FaqChunk(kept[i])]
        ELSE <<>>

\* app.py:76-90
ContactChunks(p) ==
    LET contact == Get(p, "contact", None)
    IN  IF IsDict(contact)
        THEN LET offices == Get(contact, "offices", None)
             IN  (IF Has(contact, "phone")
                    THEN << <<"Contact Phone: ">> \o Fmt(contact.val["phone"]) >> ELSE <<>>)
                 \o (IF Has(contact, "email")
                    THEN << <<"Contact Email: ">> \o Fmt(contact.val["email"]) >> ELSE <<>>)
                 \o (IF Has(contact, "title")
                    THEN << <<"Contact Title: ">> \o Fmt(contact.val["title"]) >> ELSE <<>>)
                 \o (IF Has(contact, "description")
                    THEN << <<"About Us: ">> \o Fmt(contact.val["description"]) >> ELSE <<>>)
                 \o (IF IsDict(offices)
                    THEN [i \in 1..Len(offices.val) |->
                            <<"Office in ">> \o Capitalize(offices.val[i].k) \o <<": ">>
                                \o Fmt(offices.val[i].v)]
                    ELSE <<>>)
        ELSE <<>>

\* app.py:93-96
SeoServiceChunks(p) ==
    LET seo_services == Get(p, "seoServices", None)
    IN  IF IsDict(seo_services)
        THEN [i \in 1..Len(seo_services.val) |->
                <<"SEO Service - ">> \o seo_services.val[i].k \o <<": ">>
                    \o Fmt(Get(seo_services.val[i].v, "description", Str(<<>>)))]
        ELSE <<>>

\* app.py:98-101
SeoProcessChunks(p) ==
    LET seo_process == Get(p, "seoProcess", None)
    IN  IF IsList(seo_process)
        THEN [i \in 1..Len(seo_process.val) |->
                <<"Process Step - ">> \o Fmt(Get(seo_process.val[i], "step", Str(<<>>)))
                    \o <<": ">> \o Fmt(Get(seo_process.val[i], "description", Str(<<>>)))]
        ELSE <<>>

\* app.py:48-101  the chunks one loop iteration appends to docs
FlattenEntry(p) ==
    <<BaseChunk(p)>> \o CampaignChunks(p) \o BenefitChunks(p) \o WhyChooseUsChunks(p)
        \o FaqChunks(p) \o ContactChunks(p) \o SeoServiceChunks(p) \o SeoProcessChunks(p)

\* app.py:47-101  docs after the loop over products
Flatten(ps) == Concat([i \in 1..Len(ps) |-> FlattenEntry(ps[i])])

\* app.py:48-101  the loop calls .get on a value that is no dict (AttributeError)
EntryRaises(p) ==
    \/ ~IsDict(p)
    \/ /\ IsDict(Get(p, "typesOfCampaigns", None))
       /\ \E i \in 1..Len(p.val["typesOfCampaigns"].val) :
            ~IsDict(p.val["typesOfCampaigns"].val[i].v)
    \/ /\ IsList(Get(p, "faqs", None))
       /\ \E i \in 1..Len(p.val["faqs"].val) : ~IsDict(p.val["faqs"].val[i])
    \/ /\ IsDict(Get(p, "seoServices", None))
       /\ \E i \in 1..Len(p.val["seoServices"].val) :
            ~IsDict(p.val["seoServices"].val[i].v)
    \/ /\ IsList(Get(p, "seoProcess", None))
       /\ \E i \in 1..Len(p.val["seoProcess"].val) : ~IsDict(p.val["seoProcess"].val[i])

----------------------------------------------------------------------------
(* Catalog files the startup code is run on                                *)

Q1 == Str(<<"What is SEO?">>)
A1 == Str(<<"Search engine optimisation.">>)
Q2 == Str(<<"Do you offer audits?">>)
A2 == Str(<<"Yes.">>)

FaqItems == {
    Dict([question |-> Q1, answer |-> A1]),
    Dict([question |-> Q2, answer |-> A2]),
    Dict([answer |-> A1]),                          \* question absent
    Dict([question |-> Q2]),                        \* answer absent
    Dict([question |-> Str(<<>>), answer |-> A2]),  \* question empty
    Dict([question |-> Q1, answer |-> None]),       \* answer null
    Str(<<"not an object">>) }

FaqLists == UNION {[1..n -> FaqItems] : n \in 0..MaxFaqs}

ServiceParts == {NoKeys, [service |-> Str(<<"SEO">>)], [service |-> Str(<<>>)],
                 [service |-> None]}

DescriptionParts == {NoKeys, [description |-> Str(<<"Rank higher.">>)],
                     [description |-> Str(<<>>)], [description |-> None]}

FaqParts == {[faqs |-> List(l)] : l \in FaqLists} \cup {[faqs |-> Str(<<"none yet">>)]}

Offices == Dict(<<Item(<<"q","a","t","a","r">>, Str(<<"Doha">>)),
                  Item(<<"U","S","A">>, Str(<<"Texas">>))>>)

SectionParts == {
    [typesOfCampaigns |-> Dict(<<
        Item(<<"Newsletter">>, Dict([description |-> Str(<<"Regular updates">>),
                                     idealFor |-> Str(<<"Retail">>)])),
        Item(<<"Drip">>, Dict(NoKeys))>>)],
    [typesOfCampaigns |-> Dict(<<Item(<<"Promo">>, Str(<<"flat text">>))>>)],
    [benefits |-> Dict(<<Item(<<"Reach">>, Str(<<"Wider audience">>)),
                         Item(<<"Cost">>, Str(<<>>))>>)],
    [benefits |-> List(<<Str(<<"Reach">>)>>)],
    [whyChooseUs |-> Dict(<<Item(<<"Experience">>, Str(<<"Ten years">>))>>)],
    [contact |-> Dict([phone |-> Str(<<"+1 830 631 0316">>),
                       email |-> Str(<<"director@emergingssoftware.com">>)])],
    [contact |-> Dict([title |-> Str(<<"Get in touch">>),
                       description |-> Str(<<"A digital agency">>),
                       offices |-> Offices])],
    [contact |-> Dict([offices |-> Str(<<"Doha">>)])],
    [seoServices |-> Dict(<<Item(<<"On-page">>, Dict([description |-> Str(<<"Tags">>)])),
                            Item(<<"Off-page">>, Dict(NoKeys))>>)],
    [seoServices |-> Dict(<<Item(<<"Local">>, None)>>)],
    [seoProcess |-> List(<<Dict([step |-> Str(<<"1">>), description |-> Str(<<"Audit">>)]),
                           Dict([step |-> Str(<<"2">>)])>>)],
    [seoProcess |-> List(<<Str(<<"Audit">>)>>)],
    [pricing |-> Str(<<"on request">>)] }

Named == [service |-> Str(<<"SEO">>), description |-> Str(<<"Rank higher.">>)]

\* an entry carrying every section, seven chunks or more
FullEntry ==
    Dict(Named
         @@ [benefits |-> Dict(<<Item(<<"Reach">>, Str(<<"Wider audience">>)),
                                 Item(<<"Cost">>, Str(<<"Lower spend">>))>>)]
         @@ [faqs |-> List(<<Dict([question |-> Q1, answer |-> A1]),
                             Dict([answer |-> A1]),
                             Dict([question |-> Q2, answer |-> A2])>>)]
         @@ [contact |-> Dict([phone |-> Str(<<"+1 830 631 0316">>),
                               offices |-> Offices])])

Entries ==
    {Dict(s @@ d) : s \in ServiceParts, d \in DescriptionParts}
        \cup {Dict(Named @@ f) : f \in FaqParts}
        \cup {Dict(Named @@ x) : x \in SectionParts}
        \cup {Dict([description |-> Str(<<"Rank higher.">>)] @@ x) : x \in SectionParts}
        \cup {FullEntry, Str(<<"not an object">>)}

CoreEntries ==
    {Dict(Named), Dict(NoKeys), FullEntry,
     Dict([service |-> Str(<<"Email Marketing">>)]
          @@ [faqs |-> List(<<Dict([question |-> Q2]),
                              Dict([question |-> Q2, answer |-> A2])>>)])}

CatalogLists ==
    {<<e>> : e \in Entries} \cup UNION {[1..n -> CoreEntries] : n \in 0..MaxProducts}

\* what open() / json.load find at PRODUCT_JSON_PATH
File(kind, value) == [kind |-> kind, value |-> value]

BrokenFiles == {File("missing", None), File("invalid", None),
                File("json", Dict(NoKeys)), File("json", List(<<>>))}

StartupFiles == BrokenFiles \cup {File("json", List(l)) : l \in CatalogLists}

ServingFiles ==
    {File("json", List(<<Dict([service |-> Str(<<"Email Marketing">>)]), FullEntry>>)),
     File("json", Dict(NoKeys))}

----------------------------------------------------------------------------
(* The similarity index (Chroma over the MiniLM embeddings).  The library  *)
(* is external: the model keeps what app.py relies on.  The index is built *)
(* once from docs; which chunks it ranks, and in what order, is fixed by   *)
(* the build and the query text.  The builds tried rank every chunk (in    *)
(* reverse insertion order), two chunks only, or none.                     *)

\* variant: one chunk more than the reference K
KOffByOne == 5 + 1

\* app.py:195  k=5
K == 5

NoIndex == [built |-> FALSE, texts |-> <<>>, order |-> <<>>]

IndexOrders(n) ==
    {[i \in 1..n |-> n + 1 - i], [i \in 1..(IF n < 2 THEN n ELSE 2) |-> n + 1 - i], <<>>}

\* the query's place in the embedding space
Embed(query) == Len(query)

Rotate(order, by) ==
    IF order = <<>> THEN <<>>
    ELSE [i \in 1..Len(order) |-> order[((i - 1 + by) % Len(order)) + 1]]

Min(a, b) == IF a <= b THEN a ELSE b

\* app.py:195  vectorstore.similarity_search(user_query, k)
SimilaritySearch(store, query, k) ==
    LET ranked == Rotate(store.order, Embed(query))
    IN  [i \in 1..Min(k, Len(ranked)) |-> store.texts[ranked[i]]]

\* variant: the join without the blank-context fallback
BuildContextNoFallback(context_docs) == Join(<<"\n">>, context_docs)

\* app.py:196-199
BuildContext(context_docs) ==
    LET context == Join(<<"\n">>, context_docs)
    IN  IF Strip(context) = <<>> THEN <<"No specific information found.">> ELSE context

\* app.py:207-230
ComposePrompt(context, user_query) ==
    <<"You are a helpful AI assistant for Emerging Software [...] PRODUCT CONTEXT:\n">>
        \o context \o <<"\n\nUSER QUESTION: ">> \o user_query
        \o <<"\n\nINSTRUCTIONS: [...] ANSWER:">>

RetypeText == <<"Please type a question to get started!">>

ContactEmail == "director@emergingssoftware.com"

ApologyText ==
    <<"Sorry, I encountered an error processing your request. Please try again or contact us directly at ",
      ContactEmail>>

----------------------------------------------------------------------------
(* Requests                                                                *)

HiQuery == <<"h","i">>
HelloThereQuery == <<" ","H","e","l","l","o"," ","t","h","e","r","e"," ">>
LongHiQuery ==
    <<"h","i",","," ","w","h","a","t"," ","a","r","e"," ","y","o","u",
        "r"," ","s","e","o"," ","p","a","c","k","a","g","e","s"," ","a",
        "n","d"," ","p","r","i","c","i","n","g"," ","d","e","t","a","i",
        "l","s">>
SeoQuery == <<"S","E","O"," ","p","r","i","c","i","n","g","?">>
BlankQuery == <<" ", "\t", " ">>

SampleQueries == {<<>>, BlankQuery, HiQuery, HelloThereQuery, SeoQuery}

MatchAlphabet == {"h", "i", "o", "k", "N", " ", "x"}

GeneratedQueries == UNION {[1..n -> MatchAlphabet] : n \in 0..MaxLen}

\* request bodies: not JSON at all, or a JSON object whose query is absent,
\* null, or a string
NoJson == [json |-> FALSE, value |-> None]
Json(v) == [json |-> TRUE, value |-> v]

Bodies(queries) ==
    {NoJson, Json(Dict([conversation_id |-> Str(<<"c1">>)])),
     Json(Dict([query |-> None]))}
        \cup {Json(Dict([query |-> Str(q)])) : q \in queries}

Http(method, path, body) == [method |-> method, path |-> path, body |-> body]

\* the request lines served; the body is read by the handler (app.py:177)
Inputs ==
    {Http("GET", "/health", NoJson), Http("OPTIONS", "/ask", NoJson),
     Http("POST", "/ask", NoJson)}

MatchInputs == {Http("POST", "/ask", NoJson)}

SampleBodies == Bodies(SampleQueries)

MatchBodies ==
    {Json(Dict([query |-> Str(q)])) :
        q \in GeneratedQueries \cup {HelloThereQuery, LongHiQuery, SeoQuery}}

Clock == {<<"2026-01-01T00:00:00">>, <<"2026-01-01T00:00:01">>}

LLMContents == {<<" ", "W", "e", " ", "d", "o", " ", "S", "E", "O", ".", "\n">>,
                <<"A", "s", "k", " ", "u", "s", ".">>}

NoResponse == [status |-> 0, body |-> NoKeys]

IdleRequest ==
    [pc |-> "idle", http |-> Http("", "", NoJson), user_query |-> <<>>,
     lower_query |-> <<>>, matched |-> 0, searched |-> "", context_docs |-> <<>>,
     context |-> <<>>,
     prompt |-> <<>>, llm |-> "", content |-> <<>>, now |-> <<>>,
     stages |-> <<>>, responses |-> 0, response |-> NoResponse]

\* return jsonify(body), status
Respond(rec, status, body) ==
    [rec EXCEPT !.pc = "done", !.responses = @ + 1,
                !.response = [status |-> status, body |-> body]]

----------------------------------------------------------------------------
(* Startup: the module-level code of app.py, top to bottom                 *)

shared == <<phase, env, products, docs, vectorstore>>

InitWith(files) ==
    /\ phase = "env"
    /\ env \in {[GROQ_API_KEY |-> TRUE, file |-> f] : f \in files}
                \cup {[GROQ_API_KEY |-> FALSE, file |-> File("missing", None)]}
    /\ products = <<>>
    /\ docs = <<>>
    /\ vectorstore = NoIndex
    /\ req = [r \in Reqs |-> IdleRequest]

Init == InitWith(ServingFiles)

\* app.py:14-19
LoadEnv ==
    /\ phase = "env"
    /\ phase' = IF env.GROQ_API_KEY THEN "load" ELSE "fatal"
    /\ UNCHANGED <<env, products, docs, vectorstore, req>>

\* app.py:24-42
LoadProducts ==
    /\ phase = "load"
    /\ IF env.file.kind = "json" /\ IsList(env.file.value)
       THEN /\ products' = env.file.value.val
            /\ phase' = IF products' = <<>> THEN "fatal" ELSE "flatten"
       ELSE /\ phase' = "fatal"
            /\ UNCHANGED products
    /\ UNCHANGED <<env, docs, vectorstore, req>>

\* app.py:47-103
FlattenProducts ==
    /\ phase = "flatten"
    /\ IF \E i \in 1..Len(products) : EntryRaises(products[i])
       THEN /\ phase' = "fatal"
            /\ UNCHANGED docs
       ELSE /\ docs' = Flatten(products)
            /\ phase' = "index"
    /\ UNCHANGED <<env, products, vectorstore, req>>

\* app.py:108-113  the build succeeds
BuildIndex ==
    /\ phase = "index"
    /\ \E order \in IndexOrders(Len(docs)) :
          vectorstore' = [built |-> TRUE, texts |-> docs, order |-> order]
    /\ phase' = "serving"
    /\ UNCHANGED <<env, products, docs, req>>

\* app.py:108-113  the embedding model or the index backend raises
BuildIndexFails ==
    /\ phase = "index"
    /\ phase' = "fatal"
    /\ UNCHANGED <<env, products, docs, vectorstore, req>>

----------------------------------------------------------------------------
(* Request handling.  app.run (app.py:286) starts serving only after the   *)
(* module-level code has run.                                              *)

Serving == phase = "serving"

\* Flask routing of app.py:154 and app.py:163
Route(http) ==
    IF http.path = "/health" /\ http.method = "GET" THEN "health"
    ELSE IF http.path = "/ask" /\ http.method \in {"POST", "OPTIONS"} THEN "ask"
    ELSE "not_found"

\* app.py:266-270  a request arrives, is logged and is dispatched
Receive(r, inputs) ==
    /\ Serving
    /\ req[r].pc = "idle"
    /\ \E http \in inputs :
          req' = [req EXCEPT ![r] = [@ EXCEPT !.pc = Route(http), !.http = http]]
    /\ UNCHANGED shared

\* app.py:154-161
Health(r) ==
    /\ req[r].pc = "health"
    /\ \E now \in Clock :
          req' = [req EXCEPT ![r] =
                    Respond([@ EXCEPT !.now = now], 200,
                            [status |-> <<"healthy">>, timestamp |-> now,
                             products_loaded |-> Len(products)])]
    /\ UNCHANGED shared

\* app.py:248-252  the handler's blanket except
ErrorStatus == 500

\* variant: the exception leaves the handler and reaches the 500 error handler
FailedUnhandled(rec) == Respond(rec, 500, [error |-> <<"Internal server error">>])

Failed(rec) == Respond(rec, ErrorStatus, [answer |-> ApologyText])

\* variant: request.json["query"] instead of .get("query", "")
QueryRaisesOnMissing(body) ==
    \/ ~body.json
    \/ ~IsDict(body.value)
    \/ ~Has(body.value, "query")
    \/ body.value.val["query"].tag # "str"

\* app.py:177  request.json.get("query", "").strip() raises
QueryRaises(body) ==
    \/ ~body.json
    \/ ~IsDict(body.value)
    \/ Get(body.value, "query", Str(<<>>)).tag # "str"

\* app.py:173-180  preflight, then reading and validating the query
AskBegin(r, bodies) ==
    /\ req[r].pc = "ask"
    /\ IF req[r].http.method = "OPTIONS"
       THEN req' = [req EXCEPT ![r] = Respond(@, 200, [status |-> <<"ok">>])]
       ELSE \E body \in bodies :
              LET seen == [req[r] EXCEPT !.stages = Append(@, "validation"),
                                         !.http.body = body]
              IN  IF QueryRaises(body)
                  THEN req' = [req EXCEPT ![r] = Failed(seen)]
                  ELSE LET user_query == Strip(Get(body.value, "query", Str(<<>>)).val)
                       IN  IF user_query = <<>>
                           THEN req' = [req EXCEPT ![r] =
                                          Respond(seen, 400, [answer |-> RetypeText])]
                           ELSE req' = [req EXCEPT ![r] =
                                          [seen EXCEPT !.pc = "casual",
                                                       !.user_query = user_query]]
    /\ UNCHANGED shared

\* app.py:182-189  the casual-conversation check
AskCasual(r) ==
    /\ req[r].pc = "casual"
    /\ \E lower_query \in {Strip(Lower(req[r].user_query))} :
       \E m \in {CasualMatch(lower_query)} :
          LET seen == [req[r] EXCEPT !.stages = Append(@, "casual"),
                                     !.lower_query = lower_query, !.matched = m]
          IN  IF m > 0
              THEN req' = [req EXCEPT ![r] =
                             Respond(seen, 200, [answer |-> CASUAL_RESPONSES[m].resp])]
              ELSE req' = [req EXCEPT ![r] = [seen EXCEPT !.pc = "search"]]
    /\ UNCHANGED shared

\* variant: the handler adds the query to the chunk list it searches
AskSearchCaching(r) ==
    /\ req[r].pc = "search"
    /\ req' = [req EXCEPT ![r] =
                  [@ EXCEPT !.pc = "llm", !.stages = Append(@, "search"),
                            !.searched = "raised",
                            !.context = <<"Unable to retrieve context.">>]]
    /\ docs' = Append(docs, req[r].user_query)
    /\ UNCHANGED <<phase, env, products, vectorstore>>

\* app.py:194-202  retrieval; the search returns or raises
AskSearch(r) ==
    /\ req[r].pc = "search"
    /\ \/ \E context_docs \in {SimilaritySearch(vectorstore, req[r].user_query, K)} :
             req' = [req EXCEPT ![r] =
                       [@ EXCEPT !.pc = "llm", !.stages = Append(@, "search"),
                                 !.searched = "ok", !.context_docs = context_docs,
                                 !.context = BuildContext(context_docs)]]
       \/ req' = [req EXCEPT ![r] =
                     [@ EXCEPT !.pc = "llm", !.stages = Append(@, "search"),
                               !.searched = "raised",
                               !.context = <<"Unable to retrieve context.">>]]
    /\ UNCHANGED shared

\* variant: a failed completion call is tried a second time
AskLLMRetryOnce(r) ==
    /\ req[r].pc = "llm"
    /\ LET prompt == ComposePrompt(req[r].context, req[r].user_query)
           seen == [req[r] EXCEPT !.stages = Append(@, "llm"), !.prompt = prompt]
       IN  \/ \E content \in LLMContents :
                req' = [req EXCEPT ![r] =
                          Respond([seen EXCEPT !.llm = "ok", !.content = content],
                                  200, [answer |-> Strip(content)])]
           \/ IF req[r].llm = ""
              THEN req' = [req EXCEPT ![r] = [seen EXCEPT !.llm = "raised"]]
              ELSE req' = [req EXCEPT ![r] = Failed([seen EXCEPT !.llm = "raised"])]
    /\ UNCHANGED shared

\* app.py:207-246  prompt, completion call, answer; the call returns or raises
AskLLM(r) ==
    /\ req[r].pc = "llm"
    /\ LET prompt == ComposePrompt(req[r].context, req[r].user_query)
           seen == [req[r] EXCEPT !.stages = Append(@, "llm"), !.prompt = prompt]
       IN  \/ \E content \in LLMContents :
                req' = [req EXCEPT ![r] =
                          Respond([seen EXCEPT !.llm = "ok", !.content = content],
                                  200, [answer |-> Strip(content)])]
           \/ req' = [req EXCEPT ![r] = Failed([seen EXCEPT !.llm = "raised"])]
    /\ UNCHANGED shared

----------------------------------------------------------------------------
(* Specifications                                                          *)

Startup == LoadEnv \/ LoadProducts \/ FlattenProducts \/ BuildIndex \/ BuildIndexFails

Handle(r) ==
    Health(r) \/ AskBegin(r, SampleBodies) \/ AskCasual(r) \/ AskSearch(r) \/ AskLLM(r)

Next ==
    \/ Startup
    \/ \E r \in Reqs : Receive(r, Inputs)
    \/ \E r \in Reqs : Handle(r)

Spec == Init /\ [][Next]_vars

\* a request a worker has picked up runs on: the handler is straight-line code
\* whose two blocking calls return or raise
HandleSome == \E r \in Reqs : Handle(r)

FairSpec == Spec /\ WF_vars(HandleSome)

\* the startup code alone, over the generated catalog files
InitStartup == InitWith(StartupFiles)

SpecStartup == InitStartup /\ [][Startup]_vars

\* one /ask request, over the generated queries
InitMatch == InitWith({File("json", List(<<Dict(Named)>>))})

AskSteps == AskBegin(1, MatchBodies) \/ AskCasual(1) \/ AskSearch(1) \/ AskLLM(1)

NextMatch == Startup \/ Receive(1, MatchInputs) \/ AskSteps

SpecMatch == InitMatch /\ [][NextMatch]_vars

----------------------------------------------------------------------------
(* Properties                                                              *)

Range(f) == {f[i] : i \in DOMAIN f}

Done(r) == req[r].pc = "done"

Answered(r, status, text) ==
    /\ req[r].response.status = status
    /\ DOMAIN req[r].response.body = {"answer"}
    /\ req[r].response.body["answer"] = text

\* the completion call of request r raised after a non-empty, non-casual query
LlmFailed(r) ==
    /\ Done(r)
    /\ req[r].llm = "raised"
    /\ req[r].user_query # <<>>
    /\ req[r].matched = 0

WordCount(s) ==
    Cardinality({i \in 1..Len(s) :
        s[i] \notin Whitespace /\ (i = 1 \/ s[i - 1] \in Whitespace)})

IsPrefix(prefix, s) ==
    Len(prefix) <= Len(s) /\ \A i \in 1..Len(prefix) : s[i] = prefix[i]

CasualKeys == {CASUAL_RESPONSES[i].key : i \in 1..Len(CASUAL_RESPONSES)}

\* C2: a request is answered with a canned response exactly when its
\* lower-cased, trimmed query equals a casual key, or starts with one and has
\* at most three words; a longer query that merely starts with a key goes on
\* to retrieval.
C2_PrefixMatchBoundedByWords ==
    \A r \in Reqs :
        "casual" \in Range(req[r].stages) =>
            (req[r].matched > 0 <=>
                \E key \in CasualKeys :
                    \/ req[r].lower_query = key
                    \/ IsPrefix(key, req[r].lower_query)
                        /\ WordCount(req[r].lower_query) <= 3)

\* the key, if any, that the lower-cased, trimmed query of request r starts with
StartsWithKey(r, i) ==
    LET q == Strip(Lower(Strip(
                req[r].http.body.value.val["query"].val)))
    IN  /\ IsPrefix(CASUAL_RESPONSES[i].key, q)
        /\ \A j \in 1..(i - 1) : ~IsPrefix(CASUAL_RESPONSES[j].key, q)

\* C3: once the casual check has run on a query that starts with a casual key,
\* the request has ended with status 200 and the canned response of the first
\* such key, and neither the similarity search nor the completion call was
\* made for it.
C3_CasualShortCircuits ==
    \A r \in Reqs :
        \A i \in 1..Len(CASUAL_RESPONSES) :
            ("casual" \in Range(req[r].stages) /\ StartsWithKey(r, i)) =>
                /\ Done(r)
                /\ Answered(r, 200, CASUAL_RESPONSES[i].resp)
                /\ req[r].responses = 1
                /\ req[r].stages = <<"validation", "casual">>
                /\ req[r].searched = ""
                /\ req[r].llm = ""

\* a mixed-case query that starts with a key without being equal to it
C3_Witness ==
    \E r \in Reqs :
        /\ Done(r)
        /\ req[r].matched > 0
        /\ req[r].lower_query # CASUAL_RESPONSES[req[r].matched].key
        /\ req[r].lower_query # req[r].user_query

\* the body of request r is a JSON object whose query is missing or blank
BlankQueryPosted(r) ==
    LET http == req[r].http
    IN  /\ http.method = "POST" /\ http.path = "/ask"
        /\ http.body.json
        /\ \/ "query" \notin DOMAIN http.body.value.val
           \/ /\ http.body.value.val["query"].tag = "str"
              /\ \A c \in Range(http.body.value.val["query"].val) : c \in Whitespace

\* C4: once validation has run on a POST /ask whose query is missing, empty or
\* whitespace-only, the request has ended with status 400 and the retype
\* message, and no casual match, similarity search or completion call was made.
C4_BlankQueryRejected ==
    \A r \in Reqs :
        (BlankQueryPosted(r) /\ "validation" \in Range(req[r].stages)) =>
            /\ Done(r)
            /\ Answered(r, 400, RetypeText)
            /\ req[r].responses = 1
            /\ req[r].stages = <<"validation">>
            /\ req[r].matched = 0
            /\ req[r].searched = ""
            /\ req[r].llm = ""

C4_Witness ==
    \E r1, r2 \in Reqs :
        /\ Done(r1) /\ BlankQueryPosted(r1)
        /\ "query" \notin DOMAIN req[r1].http.body.value.val
        /\ Done(r2) /\ BlankQueryPosted(r2)
        /\ "query" \in DOMAIN req[r2].http.body.value.val
        /\ req[r2].http.body.value.val["query"].val # <<>>

IsBlank(text) == \A c \in Range(text) : c \in Whitespace

\* C5: after the search stage the context is never empty: it is "No specific
\* information found." when the search returned nothing or only blank text
\* and "Unable to retrieve context." when the search raised; the request goes
\* on to the prompt and the completion call.
C5_ContextFallbacks ==
    \A r \in Reqs :
        req[r].searched # "" =>
            /\ req[r].searched = "raised" =>
                    req[r].context = <<"Unable to retrieve context.">>
            /\ (req[r].searched = "ok"
                    /\ \A i \in 1..Len(req[r].context_docs) :
                            IsBlank(req[r].context_docs[i])) =>
                    req[r].context = <<"No specific information found.">>
            /\ ~IsBlank(req[r].context)
            /\ req[r].pc \in {"llm", "done"}
            /\ Done(r) =>
                    /\ req[r].llm # ""
                    /\ \E i \in 1..(Len(req[r].prompt) + 1 - Len(req[r].context)) :
                            SubSeq(req[r].prompt, i, i + Len(req[r].context) - 1)
                                = req[r].context

\* one request whose search returned nothing and one whose search raised, both
\* answered by the model
C5_Witness ==
    \E r1, r2 \in Reqs :
        /\ Done(r1) /\ req[r1].searched = "ok" /\ req[r1].context_docs = <<>>
        /\ req[r1].llm = "ok"
        /\ Done(r2) /\ req[r2].searched = "raised" /\ req[r2].llm = "ok"

Flattened == phase \in {"index", "serving"}

RECURSIVE SumSeq(_)
SumSeq(ns) == IF ns = <<>> THEN 0 ELSE Head(ns) + SumSeq(Tail(ns))

IsFaqChunk(chunk) == chunk # <<>> /\ chunk[1] = "FAQ - Q: "

FaqListOf(p) ==
    IF "faqs" \in DOMAIN p.val /\ p.val["faqs"].tag = "list"
    THEN p.val["faqs"].val
    ELSE <<>>

Present(item, field) ==
    /\ field \in DOMAIN item.val
    /\ item.val[field].tag = "str"
    /\ item.val[field].val # <<>>

Complete(item) == Present(item, "question") /\ Present(item, "answer")

Incomplete(item) == ~Complete(item)

ExpectedFaqChunks(p) ==
    LET kept == SelectSeq(FaqListOf(p), Complete)
    IN  [i \in 1..Len(kept) |->
            <<"FAQ - Q: ">> \o kept[i].val["question"].val
                \o <<" A: ">> \o kept[i].val["answer"].val]

\* C6: in the flattened chunk sequence, the FAQ chunks are exactly the chunks
\* of the FAQ items that have both a non-empty question and a non-empty
\* answer, in catalog and list order; their number is the total length of the
\* FAQ lists minus the number of incomplete items.
C6_FaqChunksSkipIncomplete ==
    Flattened =>
        LET faq_chunks == SelectSeq(docs, IsFaqChunk)
        IN  /\ faq_chunks
                = Concat([i \in 1..Len(products) |-> ExpectedFaqChunks(products[i])])
            /\ Len(faq_chunks)
                = SumSeq([i \in 1..Len(products) |->
                            Len(FaqListOf(products[i]))
                                - Len(SelectSeq(FaqListOf(products[i]), Incomplete))])

\* an incomplete item ahead of a complete one in the same list
C6_Witness ==
    /\ Flattened
    /\ \E i \in 1..Len(products) :
          /\ Len(FaqListOf(products[i])) >= 2
          /\ Incomplete(FaqListOf(products[i])[1])
          /\ Complete(FaqListOf(products[i])[2])
    /\ \E c \in Range(docs) : IsFaqChunk(c)

\* position in docs of the first chunk of the i-th catalog entry
FirstChunkAt(i) ==
    1 + SumSeq([j \in 1..(i - 1) |-> Len(FlattenEntry(products[j]))])

ExpectedFirstChunk(p) ==
    (IF "service" \in DOMAIN p.val THEN Fmt(p.val["service"]) ELSE <<"Unnamed Product">>)
        \o <<": ">>
        \o (IF "description" \in DOMAIN p.val THEN Fmt(p.val["description"])
            ELSE <<"No description available.">>)

Searched(r) == req[r].searched # ""

\* the chunks the built index ranks first for the query of request r
RankedChunks(r) ==
    LET n == Len(vectorstore.order)
        first == IF n <= 5 THEN n ELSE 5
    IN  [i \in 1..first |->
            docs[vectorstore.order[((i - 1 + Len(req[r].user_query)) % n) + 1]]]

\* C8 as stated: the context of every query is the newline join of at most
\* five chunks of the startup chunk sequence, and the same query always yields
\* the same context.
C8_ContextIsRankedChunks ==
    /\ \A r \in Reqs :
          Searched(r) =>
              /\ Len(req[r].context_docs) <= 5
              /\ \A c \in Range(req[r].context_docs) : c \in Range(docs)
              /\ req[r].context = Join(<<"\n">>, req[r].context_docs)
    /\ \A r1, r2 \in Reqs :
          (Searched(r1) /\ Searched(r2) /\ req[r1].user_query = req[r2].user_query)
              => req[r1].context = req[r2].context

\* C8 amended: when the search returns a result that is not blank, the context
\* is the newline join of at most five chunks of the startup chunk sequence,
\* in the order the index ranks them; when it returns nothing or raises, the
\* context is the matching fixed fallback sentence; and the same query with
\* the same search outcome always yields the same context.
C8_ContextIsRankedChunksOrFallback ==
    /\ \A r \in Reqs :
          Searched(r) =>
              /\ Len(req[r].context_docs) <= 5
              /\ \A c \in Range(req[r].context_docs) : c \in Range(docs)
              /\ req[r].searched = "ok" => req[r].context_docs = RankedChunks(r)
              /\ IF req[r].searched = "raised"
                 THEN req[r].context = <<"Unable to retrieve context.">>
                 ELSE IF req[r].context_docs = <<>>
                 THEN req[r].context = <<"No specific information found.">>
                 ELSE req[r].context = Join(<<"\n">>, req[r].context_docs)
    /\ \A r1, r2 \in Reqs :
          (/\ Searched(r1) /\ Searched(r2)
           /\ req[r1].user_query = req[r2].user_query
           /\ req[r1].searched = req[r2].searched)
              => req[r1].context = req[r2].context

\* two requests with the same query, answered from an index of more than five
\* chunks
C8_Witness ==
    \E r1, r2 \in Reqs :
        /\ r1 # r2
        /\ req[r1].searched = "ok" /\ req[r2].searched = "ok"
        /\ req[r1].user_query = req[r2].user_query
        /\ Len(req[r1].context_docs) = 5
        /\ Len(docs) > 5
        /\ req[r1].context_docs[1] # docs[1]

InFlight(r) == req[r].pc \notin {"idle", "done"}

\* what a request reads from outside the process-wide state
OwnInputs(r) ==
    <<req[r].http, req[r].searched, req[r].llm, req[r].content, req[r].now>>

StartupComplete ==
    /\ phase = "serving"
    /\ products # <<>>
    /\ docs # <<>>
    /\ vectorstore.built
    /\ vectorstore.texts = docs

\* C9: no request is handled before the catalog, the chunk sequence and the
\* index are built; no step of request handling changes them; and two finished
\* requests that had the same request data and the same outcomes of their own
\* calls got the same response, whatever ran beside them.
C9_SharedStateReadOnly ==
    /\ [](\A r \in Reqs : req[r].pc # "idle" => StartupComplete)
    /\ [][phase = "serving" => UNCHANGED <<phase, env, products, docs, vectorstore>>]_vars
    /\ [](\A r1, r2 \in Reqs :
            (Done(r1) /\ Done(r2) /\ OwnInputs(r1) = OwnInputs(r2))
                => req[r1].response = req[r2].response)

\* two requests in flight at once, at different stages
C9_Witness ==
    \E r1, r2 \in Reqs :
        /\ req[r1].pc = "llm"
        /\ req[r2].pc = "search"
        /\ req[r1].http = req[r2].http

StageOrder == <<"validation", "casual", "search", "llm">>

\* C10: a started /ask request eventually ends; it ends in exactly one
\* response, which then stays; its stages are a prefix of validation, casual
\* match, search, completion call, so the search and the completion call run
\* at most once each and the completion call only after the search stage has
\* produced a context.
C10_OneResponseStagesInOrder ==
    /\ [](\A r \in Reqs :
            /\ Len(req[r].stages) <= Len(StageOrder)
            /\ req[r].stages = SubSeq(StageOrder, 1, Len(req[r].stages))
            /\ req[r].responses = (IF Done(r) THEN 1 ELSE 0)
            /\ "llm" \in Range(req[r].stages) =>
                    Searched(r) /\ req[r].context # <<>>)
    /\ [][\A r \in Reqs : Done(r) => req'[r] = req[r]]_vars
    /\ \A r \in Reqs : (req[r].pc = "ask") ~> Done(r)

\* a request that went through all four stages while another was in flight
C10_Witness ==
    \E r1, r2 \in Reqs :
        /\ Done(r1) /\ req[r1].stages = StageOrder /\ req[r1].llm = "raised"
        /\ req[r1].searched = "raised"
        /\ req[r2].pc = "casual"

============================================================================
